---- MODULE Spec2Model ----
(***************************************************************************)
(* Model of the wildcard category tree of python_app: the in-memory tree   *)
(* state['wildcards'], the path resolver and YAML codec of utils.py, the   *)
(* event handlers of app.py and the request building and response          *)
(* decoding of the provider adapter of api.py.                             *)
(*                                                                         *)
(* Python strings are sequences of one-character strings, so that split,   *)
(* strip, join, replace and startswith are computed, not assumed.          *)
(* Python values are tagged records: t is the Python type, and the payload *)
(* has a field of its own per type (a dict is a function from keys to      *)
(* values; key order, which no modelled operation depends on, is not kept).*)
(***************************************************************************)
EXTENDS Integers, Sequences, FiniteSets, TLC

\* ---------------------------------------------------------------- bounds
\* number of handler calls after construction
MaxSteps == 2

\* ------------------------------------------------------------- characters
\* code points of the characters the inputs use (Python compares strings
\* by code point)
Code(c) ==
  CASE c = " " -> 32
    [] c = "#" -> 35
    [] c = "-" -> 45
    [] c = "/" -> 47
    [] c = "0" -> 48
    [] c = "1" -> 49
    [] c = "2" -> 50
    [] c = ":" -> 58
    [] c = "_" -> 95
    [] c = "a" -> 97
    [] c = "b" -> 98
    [] c = "c" -> 99
    [] c = "d" -> 100
    [] c = "i" -> 105
    [] c = "l" -> 108
    [] c = "n" -> 110
    [] c = "o" -> 111
    [] c = "r" -> 114
    [] c = "s" -> 115
    [] c = "t" -> 116
    [] c = "u" -> 117
    [] c = "w" -> 119
    [] c = "x" -> 120
    [] c = "y" -> 121
    [] c = "z" -> 122

\* the reserved dict keys 'instruction' and 'wildcards'
KI == <<"i","n","s","t","r","u","c","t","i","o","n">>
KW == <<"w","i","l","d","c","a","r","d","s">>

\* ------------------------------------------------------ Python str methods
RECURSIVE StrLess(_, _)
\* s < t on Python strings: lexicographic by code point
StrLess(s, t) ==
  IF t = <<>> THEN FALSE
  ELSE IF s = <<>> THEN TRUE
  ELSE IF s[1] = t[1] THEN StrLess(Tail(s), Tail(t))
  ELSE Code(s[1]) < Code(t[1])

IsSpace(c) == c = " "

RECURSIVE LStrip(_)
LStrip(s) == IF s # <<>> /\ IsSpace(s[1]) THEN LStrip(Tail(s)) ELSE s

RECURSIVE RStrip(_)
RStrip(s) ==
  IF s # <<>> /\ IsSpace(s[Len(s)]) THEN RStrip(SubSeq(s, 1, Len(s) - 1)) ELSE s

\* s.strip()
Strip(s) == RStrip(LStrip(s))

\* s.startswith(p)
StartsWith(s, p) == Len(s) >= Len(p) /\ SubSeq(s, 1, Len(p)) = p

\* index of the first occurrence of sep in s, 0 when there is none
FindSub(s, sep) ==
  LET hits == {i \in 1..(Len(s) - Len(sep) + 1) : SubSeq(s, i, i + Len(sep) - 1) = sep}
  IN IF hits = {} THEN 0 ELSE CHOOSE i \in hits : \A j \in hits : i <= j

\* sub in s, for a non-empty sub ('' is in every string)
Contains(s, sub) == sub = <<>> \/ FindSub(s, sub) # 0

RECURSIVE Split(_, _)
\* s.split(sep) for a one-character sep: always at least one part
Split(s, sep) ==
  LET i == FindSub(s, <<sep>>)
  IN IF i = 0 THEN <<s>>
     ELSE <<SubSeq(s, 1, i - 1)>> \o Split(SubSeq(s, i + 1, Len(s)), sep)

RECURSIVE Join(_, _)
\* sep.join(parts)
Join(parts, sep) ==
  IF parts = <<>> THEN <<>>
  ELSE IF Len(parts) = 1 THEN parts[1]
  ELSE parts[1] \o <<sep>> \o Join(Tail(parts), sep)

\* s.replace(a, b) for one-character a and b
ReplaceChar(s, a, b) == [i \in 1..Len(s) |-> IF s[i] = a THEN b ELSE s[i]]

\* s.replace(p, '', 1) when s starts with p
DropPrefix(s, p) == SubSeq(s, Len(p) + 1, Len(s))

\* ------------------------------------------------------ Python list methods
RECURSIVE Insert(_, _)
Insert(sorted, x) ==
  IF sorted = <<>> THEN <<x>>
  ELSE IF StrLess(x, sorted[1]) THEN <<x>> \o sorted
  ELSE <<sorted[1]>> \o Insert(Tail(sorted), x)

RECURSIVE Sorted(_)
\* sorted(l) on a list of strings: keeps duplicates
Sorted(l) == IF l = <<>> THEN <<>> ELSE Insert(Sorted(SubSeq(l, 1, Len(l) - 1)), l[Len(l)])

Elems(l) == {l[i] : i \in 1..Len(l)}

RECURSIVE SetToSorted(_)
\* sorted(list(set(l))), given set(l)
SetToSorted(S) ==
  IF S = {} THEN <<>>
  ELSE LET m == CHOOSE x \in S : \A y \in S : x = y \/ StrLess(x, y)
       IN <<m>> \o SetToSorted(S \ {m})

SortedSet(l) == SetToSorted(Elems(l))

RECURSIVE Filter(_, _)
\* [w for w in l if w not in sel]
Filter(l, sel) ==
  IF l = <<>> THEN <<>>
  ELSE (IF l[1] \in sel THEN <<>> ELSE <<l[1]>>) \o Filter(Tail(l), sel)

\* ----------------------------------------------------------- Python values
D(f) == [t |-> "dict", d |-> f]
L(l) == [t |-> "list", l |-> l]
S(s) == [t |-> "str", s |-> s]
NoneV == [t |-> "none"]
\* an exception propagating out of a call
Raise == [t |-> "raise"]
EmptyDict == D(<<>>)

IsDict(x) == x.t = "dict"
IsList(x) == x.t = "list"
Keys(x) == IF IsDict(x) THEN DOMAIN x.d ELSE {}
\* bool(x)
Truthy(x) ==
  CASE x.t = "dict" -> x.d # <<>>
    [] x.t = "list" -> x.l # <<>>
    [] x.t = "str" -> x.s # <<>>
    [] OTHER -> FALSE

\* d[k] = val on a dict
DictSet(d, k, val) == D([j \in Keys(d) \cup {k} |-> IF j = k THEN val ELSE d.d[j]])
\* del d[k] on a dict
DictDel(d, k) == D([j \in Keys(d) \ {k} |-> d.d[j]])

\* {'instruction': instr, 'wildcards': ws}
Leaf(instr, ws) == D([k \in {KI, KW} |-> IF k = KI THEN S(instr) ELSE L(ws)])

\* An int in a list of wildcards (a list that an API result was merged into
\* can hold one): its digit behind a marker, so that 1 and '1' differ
IntMark == "int"
IntWord(n) == <<IntMark, (<<"0", "1", "2">>)[n + 1]>>
IsIntWord(w) == w # <<>> /\ w[1] = IntMark
IntOf(w) == CHOOSE n \in 0..2 : IntWord(n) = w
HasIntWord(ws) == \E i \in 1..Len(ws) : IsIntWord(ws[i])
HasStrWord(ws) == \E i \in 1..Len(ws) : ~IsIntWord(ws[i])

\* 'wildcards' in x, on any value x
HasKey(x, k) ==
  CASE x.t = "dict" -> k \in Keys(x)
    [] x.t = "list" -> k \in Elems(x.l)
    [] x.t = "str" -> Contains(x.s, k)
    [] OTHER -> FALSE

\* ------------------------------------------------------- parsed YAML nodes
\* What yaml.load returns: a CommentedSeq of scalars, a CommentedMap (v: key
\* -> node, ca: key -> value of the comment token ca.items[key][2], for the
\* keys that carry one), a scalar (a str or an int), None for an empty
\* document. Keys are strings.
YSeq(items) == [t |-> "seq", items |-> items]
YMap(f, c) == [t |-> "map", m |-> f, ca |-> c]
YScalar(x) == [t |-> "scalar", x |-> x]
YNone == [t |-> "none"]
YInt(n) == [t |-> "int", n |-> n]

\* str(v) of a scalar
PyStr(x) == IF x.t = "int" THEN <<(<<"0", "1", "2">>)[x.n + 1]>> ELSE x.s

\* '# instruction:' and '#'
InstructionPrefix == <<"#", " ">> \o KI \o <<":">>
HashPrefix == <<"#">>

\* the instruction text of the comment token attached to key k of node
KeyComment(node, k) ==
  IF k \in DOMAIN node.ca
  THEN LET comment_val == Strip(node.ca[k])
       IN IF StartsWith(comment_val, InstructionPrefix)
          THEN Strip(DropPrefix(comment_val, InstructionPrefix))
          ELSE IF StartsWith(comment_val, HashPrefix)
          THEN Strip(DropPrefix(comment_val, HashPrefix))
          ELSE <<>>
  ELSE <<>>

\* the elements stringified but left in document order
SeqWildcardsUnsorted(node) == [i \in 1..Len(node.items) |-> PyStr(node.items[i])]

\* sorted([str(v) for v in node])
SeqWildcards(node) == Sorted([i \in 1..Len(node.items) |-> PyStr(node.items[i])])

RECURSIVE process_ruamel_node(_)
process_ruamel_node(node) ==
  CASE node.t = "seq" -> Leaf(<<>>, SeqWildcards(node))
    [] node.t = "map" ->
         D([k \in DOMAIN node.m |->
              DictSet(process_ruamel_node(node.m[k]), KI, S(KeyComment(node, k)))])
    [] OTHER -> Leaf(<<>>, <<PyStr(node.x)>>)

\* ------------------------------------------------------------ path resolver
\* value has a 'wildcards' key holding a list (utils.py:87); the subscript
\* raises when value is a list or a str that contains 'wildcards'
IsLeafValue(value) == HasKey(value, KW) /\ IsDict(value) /\ IsList(value.d[KW])
LeafTestRaises(value) == HasKey(value, KW) /\ ~IsDict(value)

\* f"{parent_path}/{key}" if parent_path else key
ChildPath(parent_path, key) ==
  IF parent_path # <<>> THEN parent_path \o <<"/">> \o key ELSE key

RECURSIVE PathsUnder(_, _, _)
\* the paths get_all_paths appends for the keys ks of wildcard_data, unsorted
PathsUnder(wildcard_data, ks, parent_path) ==
  IF ks = {} THEN <<>>
  ELSE LET key == CHOOSE k \in ks : TRUE
           value == wildcard_data.d[key]
           current_path == ChildPath(parent_path, key)
           here == IF key = KI THEN <<>>
                   ELSE IF IsLeafValue(value) THEN <<current_path>>
                   ELSE IF IsDict(value) /\ Truthy(value)
                   THEN PathsUnder(value, Keys(value), current_path)
                   ELSE <<>>
       IN here \o PathsUnder(wildcard_data, ks \ {key}, parent_path)

\* get_all_paths(wildcard_data): sorting at the outermost call sorts all
get_all_paths(wildcard_data) == Sorted(PathsUnder(wildcard_data, Keys(wildcard_data), <<>>))

RECURSIVE get_all_paths_raises(_)
get_all_paths_raises(wildcard_data) ==
  \E key \in Keys(wildcard_data) \ {KI} :
    LET value == wildcard_data.d[key]
    IN \/ LeafTestRaises(value)
       \/ ~IsLeafValue(value) /\ IsDict(value) /\ get_all_paths_raises(value)

\* data.get(part, {}), or the AttributeError of a str or a list
PyGet(data, part) ==
  IF ~IsDict(data) THEN Raise
  ELSE IF part \in Keys(data) THEN data.d[part] ELSE EmptyDict

RECURSIVE Descend(_, _)
\* the loop of get_data_by_path over parts
Descend(data, parts) ==
  IF parts = <<>> THEN data
  ELSE IF data = Raise THEN Raise
  ELSE Descend(PyGet(data, parts[1]), Tail(parts))

get_data_by_path(path, tree) ==
  IF path = <<>> THEN NoneV ELSE Descend(tree, Split(path, "/"))

RECURSIVE Attached(_, _)
\* the object Descend returns is part of the tree (not a fresh {})
Attached(data, parts) ==
  parts = <<>> \/ (IsDict(data) /\ parts[1] \in Keys(data)
                   /\ Attached(data.d[parts[1]], Tail(parts)))

RECURSIVE SetAt(_, _, _)
\* the tree after the object at parts has been mutated in place into new
SetAt(data, parts, new) ==
  IF parts = <<>> THEN new
  ELSE DictSet(data, parts[1], SetAt(data.d[parts[1]], Tail(parts), new))

\* the tree after an in-place mutation of the object get_data_by_path
\* returned for parts: a fresh {} is not part of the tree
Mutate(tree, parts, new) == IF Attached(tree, parts) THEN SetAt(tree, parts, new) ELSE tree

\* list(d.keys()): the keys of a dict, their order not kept
KeyList(ks) == [t |-> "keys", ks |-> ks]

get_parent_structure_by_path(path, tree) ==
  IF path = <<>> THEN KeyList(Keys(tree))
  ELSE LET parts == Split(path, "/")
           parent_data == get_data_by_path(Join(SubSeq(parts, 1, Len(parts) - 1), "/"), tree)
       IN IF Len(parts) = 1 THEN KeyList(Keys(tree))
          ELSE IF parent_data = Raise THEN Raise
          ELSE IF ~Truthy(parent_data) THEN KeyList({})
          ELSE IF IsDict(parent_data) THEN KeyList(Keys(parent_data))
          ELSE Raise

\* ---------------------------------------------------------------- encoding
\* the comment token yaml_add_eol_comment attaches for a child v
EolComment(v) == <<"#", " ">> \o KI \o <<":", " ">> \o v.d[KI].s
HasEolComment(v) == IsDict(v) /\ KI \in Keys(v) /\ Truthy(v.d[KI])

RECURSIVE reconstruct_yaml_structure(_)
\* every value under a key other than 'instruction' is a dict here, and
\* 'wildcards', where present, holds a list
reconstruct_yaml_structure(node) ==
  IF KW \in Keys(node)
  THEN YSeq([i \in 1..Len(node.d[KW].l) |->
               IF IsIntWord(node.d[KW].l[i]) THEN YInt(IntOf(node.d[KW].l[i]))
               ELSE S(node.d[KW].l[i])])
  ELSE LET ks == Keys(node) \ {KI}
       IN YMap([k \in ks |-> reconstruct_yaml_structure(node.d[k])],
               [k \in {j \in ks : HasEolComment(node.d[j])} |-> EolComment(node.d[k])])

\* ---------------------------------------------------------- event handlers
\* A handler call yields the tree it leaves behind and whether an exception
\* propagated out of it (mutations made before the exception stay: the tree
\* is mutated in place).
Ret(tree, raised) == [tree |-> tree, raised |-> raised]

RECURSIVE CreateParts(_, _)
\* the loop of create_category_confirm from current over parts; indexing or
\* assigning into a str or a list raises TypeError
CreateParts(current, parts) ==
  IF parts = <<>> THEN Ret(current, FALSE)
  ELSE IF ~IsDict(current) THEN Ret(current, TRUE)
  ELSE LET part == parts[1]
           child == IF part \in Keys(current) THEN current.d[part] ELSE Leaf(<<>>, <<>>)
           rest == CreateParts(child, Tail(parts))
       IN Ret(DictSet(current, part, rest.tree), rest.raised)

create_category_confirm(name, tree) ==
  IF Strip(name) = <<>> THEN Ret(tree, FALSE)
  ELSE LET r == CreateParts(tree, Split(Strip(name), "/"))
       IN Ret(r.tree, r.raised \/ get_all_paths_raises(r.tree))

\* parts[:-1]
Front(parts) == SubSeq(parts, 1, Len(parts) - 1)

delete_category_handler(path, tree) ==
  IF path = <<>> THEN Ret(tree, FALSE)
  ELSE LET parts == Split(path, "/")
           key == parts[Len(parts)]
           parent_path == Join(Front(parts), "/")
           parent_node == get_data_by_path(parent_path, tree)
           after ==
             IF Len(parts) = 1
             THEN Ret(IF path \in Keys(tree) THEN DictDel(tree, path) ELSE tree, FALSE)
             ELSE IF parent_node = Raise THEN Ret(tree, TRUE)
             ELSE IF Truthy(parent_node) /\ HasKey(parent_node, key)
             THEN IF IsDict(parent_node)
                  THEN Ret(Mutate(tree, Front(parts), DictDel(parent_node, key)), FALSE)
                  ELSE Ret(tree, TRUE)
             ELSE Ret(tree, FALSE)
       IN Ret(after.tree, after.raised \/ get_all_paths_raises(after.tree))

\* data_node.get('wildcards', []) on a dict
NodeWildcards(data_node) == IF KW \in Keys(data_node) THEN data_node.d[KW].l ELSE <<>>

add_wildcard_handler(path, new_wildcard, tree) ==
  IF path = <<>> \/ Strip(new_wildcard) = <<>> THEN Ret(tree, FALSE)
  ELSE LET data_node == get_data_by_path(path, tree)
       IN IF data_node = Raise THEN Ret(tree, TRUE)
          ELSE IF ~Truthy(data_node) THEN Ret(tree, FALSE)
          ELSE IF ~IsDict(data_node) THEN Ret(tree, TRUE)
          ELSE LET wildcards_ == Append(NodeWildcards(data_node), Strip(new_wildcard))
               IN IF HasIntWord(wildcards_)
                  \* the list has the new wildcard appended when sorted raises
                  THEN Ret(Mutate(tree, Split(path, "/"),
                                  DictSet(data_node, KW, L(wildcards_))), TRUE)
                  ELSE Ret(Mutate(tree, Split(path, "/"),
                                  DictSet(data_node, KW, L(SortedSet(wildcards_)))), FALSE)

\* a handler that removes only the first of the selected wildcards
DeleteFirstSelected(path, selected, tree) ==
  IF path = <<>> \/ selected = <<>> THEN Ret(tree, FALSE)
  ELSE LET data_node == get_data_by_path(path, tree)
       IN IF data_node = Raise THEN Ret(tree, TRUE)
          ELSE IF ~Truthy(data_node) THEN Ret(tree, FALSE)
          ELSE IF ~IsDict(data_node) THEN Ret(tree, TRUE)
          ELSE LET updated == Filter(NodeWildcards(data_node), {selected[1]})
               IN Ret(Mutate(tree, Split(path, "/"), DictSet(data_node, KW, L(updated))), FALSE)

delete_selected_handler(path, selected, tree) ==
  IF path = <<>> \/ selected = <<>> THEN Ret(tree, FALSE)
  ELSE LET data_node == get_data_by_path(path, tree)
       IN IF data_node = Raise THEN Ret(tree, TRUE)
          ELSE IF ~Truthy(data_node) THEN Ret(tree, FALSE)
          ELSE IF ~IsDict(data_node) THEN Ret(tree, TRUE)
          ELSE LET updated == Filter(NodeWildcards(data_node), Elems(selected))
               IN Ret(Mutate(tree, Split(path, "/"), DictSet(data_node, KW, L(updated))), FALSE)

\* What api.generate_wildcards does for the handler: it raises (ok = FALSE) or
\* returns a list of strings (ok = TRUE, words).
ApiRaise == [ok |-> FALSE, words |-> <<>>]
ApiList(words) == [ok |-> TRUE, words |-> words]

\* a handler that appends the new wildcards to the list as it is
GenerateAppending(path, api_result, tree) ==
  IF path = <<>> THEN Ret(tree, FALSE)
  ELSE LET data_node == get_data_by_path(path, tree)
       IN IF data_node = Raise \/ ~IsDict(data_node) THEN Ret(tree, TRUE)
          ELSE IF ~api_result.ok THEN Ret(tree, FALSE)
          ELSE Ret(Mutate(tree, Split(path, "/"),
                          DictSet(data_node, KW,
                                  L(NodeWildcards(data_node) \o api_result.words))), FALSE)

generate_more_handler(path, api_result, tree) ==
  IF path = <<>> THEN Ret(tree, FALSE)
  ELSE LET data_node == get_data_by_path(path, tree)
       IN IF data_node = Raise \/ ~IsDict(data_node) THEN Ret(tree, TRUE)
          ELSE IF ~api_result.ok THEN Ret(tree, FALSE)
          ELSE LET existing_words == NodeWildcards(data_node)
                   updated_wildcards == SortedSet(existing_words \o api_result.words)
               IN Ret(Mutate(tree, Split(path, "/"),
                             DictSet(data_node, KW, L(updated_wildcards))), FALSE)

\* ' - '
LabelSep == <<" ", "-", " ">>
\* name, instruction = item_str.split(" - ", 1), or the whole label and ''
LabelName(item_str) ==
  LET i == FindSub(item_str, LabelSep)
  IN IF i = 0 THEN item_str ELSE SubSeq(item_str, 1, i - 1)
LabelInstruction(item_str) ==
  LET i == FindSub(item_str, LabelSep)
  IN IF i = 0 THEN <<>> ELSE SubSeq(item_str, i + Len(LabelSep), Len(item_str))
\* a name that is trimmed and keeps its inner spaces
NameKeepingSpaces(item_str) == Strip(LabelName(item_str))

\* name.strip().replace(' ', '_')
SanitizedName(item_str) == ReplaceChar(Strip(LabelName(item_str)), " ", "_")

RECURSIVE AcceptInto(_, _)
\* the loop of accept_suggestions_handler over the selected labels, for a
\* dict parent_node
AcceptInto(parent_node, selected) ==
  IF selected = <<>> THEN parent_node
  ELSE LET sanitized_name == SanitizedName(selected[1])
           next == IF sanitized_name \in Keys(parent_node) THEN parent_node
                   ELSE DictSet(parent_node, sanitized_name,
                                Leaf(LabelInstruction(selected[1]), <<>>))
       IN AcceptInto(next, Tail(selected))

accept_suggestions_handler(selected_suggestions, path, tree) ==
  IF selected_suggestions = <<>> THEN Ret(tree, FALSE)
  ELSE LET parts == IF path # <<>> THEN Split(path, "/") ELSE <<>>
           parent_path_parts == Front(parts)
           parent_node == Descend(tree, parent_path_parts)
           after ==
             IF parent_node = Raise THEN Ret(tree, TRUE)
             ELSE IF IsDict(parent_node)
             THEN Ret(Mutate(tree, parent_path_parts,
                             AcceptInto(parent_node, selected_suggestions)), FALSE)
             ELSE Ret(tree, \E i \in 1..Len(selected_suggestions) :
                               ~HasKey(parent_node, SanitizedName(selected_suggestions[i])))
       IN Ret(after.tree, after.raised \/ get_all_paths_raises(after.tree))

\* bool(yaml_data)
DocTruthy(doc) ==
  CASE doc.t = "seq" -> doc.items # <<>>
    [] doc.t = "map" -> doc.m # <<>>
    [] doc.t = "scalar" -> IF doc.x.t = "int" THEN doc.x.n # 0 ELSE doc.x.s # <<>>
    [] OTHER -> FALSE

\* a file whose content yaml.load rejects
Malformed == [t |-> "malformed"]
\* no file: the data file does not exist, nothing was uploaded
NoFile == [t |-> "nofile"]

\* the exception of get_all_paths is caught by the handler's try, after the
\* tree has been replaced
import_handler(file, tree) ==
  IF file = NoFile \/ file = Malformed \/ ~DocTruthy(file) THEN Ret(tree, FALSE)
  ELSE Ret(process_ruamel_node(file), FALSE)

load_initial_data(file) ==
  IF file = NoFile \/ file = Malformed \/ ~DocTruthy(file) THEN EmptyDict
  ELSE process_ruamel_node(file)

\* ------------------------------------------------------------ API adapter
\* API keys, model names and URLs are strings like the others; the fixed
\* parts of a URL are kept as one element each.
Providers == {"gemini", "openrouter", "custom"}

\* JSON values as json.loads returns them: a list, a dict (its pairs in
\* document order, which dict iteration follows), a str
JArr(items) == [t |-> "jarr", items |-> items]
JObj(pairs) == [t |-> "jobj", pairs |-> pairs]
JStr(s) == [t |-> "jstr", s |-> s]
JInt(n) == [t |-> "jint", n |-> n]
JNull == [t |-> "jnull"]
Pair(k, v) == [k |-> k, v |-> v]

\* What a call of the adapter gives its caller: a returned value, or a
\* raised exception (its type, its message text and, where the message
\* carries them, the HTTP status and body), with the HTTP requests it issued.
Returned(val, requests) ==
  [ok |-> TRUE, val |-> val, type |-> "", text |-> "", code |-> 0, body |-> <<>>,
   requests |-> requests]
Raised(type, text, code, body, requests) ==
  [ok |-> FALSE, val |-> JNull, type |-> type, text |-> text, code |-> code, body |-> body,
   requests |-> requests]

\* url, headers, payload
Request(url, authorization, model, format) ==
  [url |-> url, authorization |-> authorization, model |-> model, format |-> format]
Prepared(request) == [ok |-> TRUE, request |-> request, text |-> ""]
ConfigError(text) == [ok |-> FALSE, request |-> Request(<<>>, <<>>, <<>>, ""), text |-> text]

\* base_url.rstrip('/')
RECURSIVE RStripSlash(_)
RStripSlash(s) ==
  IF s # <<>> /\ s[Len(s)] = "/" THEN RStripSlash(SubSeq(s, 1, Len(s) - 1)) ELSE s

\* f"Bearer {api_key}"
Bearer(api_key) == <<"Bearer ">> \o api_key

\* a request builder that asks for no configuration
PrepareAnyway(provider, keys, mods, schema) ==
  Prepared(Request(<<"https://generativelanguage.googleapis.com/v1beta/models/">>,
                   <<>>, <<>>, schema))

\* schema: the responseSchema sent to gemini
_prepare_request(provider, keys, mods, schema) ==
  CASE provider = "gemini" ->
         IF keys["gemini"] = <<>>
         THEN ConfigError("Gemini API key not provided in settings.")
         ELSE Prepared(Request(
                <<"https://generativelanguage.googleapis.com/v1beta/models/">>
                  \o mods["gemini"] \o <<":generateContent?key=">> \o keys["gemini"],
                <<>>, <<>>, schema))
    [] provider = "openrouter" ->
         IF keys["openrouter"] = <<>>
         THEN ConfigError("OpenRouter API key not provided in settings.")
         ELSE Prepared(Request(<<"https://openrouter.ai/api/v1/chat/completions">>,
                               Bearer(keys["openrouter"]), mods["openrouter"], "json_object"))
    [] provider = "custom" ->
         IF mods["custom_url"] = <<>>
         THEN ConfigError("Custom API URL not provided in settings.")
         ELSE Prepared(Request(RStripSlash(mods["custom_url"]) \o <<"/chat/completions">>,
                               IF keys["custom"] # <<>> THEN Bearer(keys["custom"]) ELSE <<>>,
                               mods["custom"], "json_object"))
    [] OTHER -> ConfigError("Provider is not implemented yet.")

\* ---- what urlopen gives: the environment's answer to one request
\* status: the HTTP status; body: the body as response.read() gives it;
\* raw: what e.read() gives the HTTPError handler, when readable (the read of
\* an HTTPError built on a response that the with statement has closed
\* raises instead)
Answer(k, status, body, raw, readable) ==
  [k |-> k, status |-> status, body |-> body, raw |-> raw, readable |-> readable]

\* response bodies: not JSON; {"candidates": [{"content": {"parts": [{"text":
\* text}]}}]}; {"choices": [{"message": {"content": text}}]}; a JSON object
\* with neither key
BodyNotJson == [b |-> "notjson", text |-> <<>>]
BodyCandidates(text) == [b |-> "candidates", text |-> text]
BodyChoices(text) == [b |-> "choices", text |-> text]
BodyOther == [b |-> "other", text |-> <<>>]

\* urlopen raises URLError (no connection, timeout)
URLError == Answer("urlerror", 0, BodyOther, <<>>, FALSE)
\* urlopen raises HTTPError for a non-2xx status
HTTPError(code, raw) == Answer("httperror", code, BodyOther, raw, TRUE)
\* urlopen returns a response
Response(status, body) == Answer("response", status, body, <<>>, FALSE)

\* ---- the message content
\* the backquote character (a TLA+ string cannot hold it)
Backquote == "backquote"
Fence == <<Backquote, Backquote, Backquote>>
JsonTag == <<"j", "s", "o", "n">>
\* \s
IsWs(c) == c \in {" ", "\n", "\t"}

\* index of the first occurrence of sub in s at or after from, 0 when none
FindFrom(s, sub, from) ==
  LET hits == {i \in from..(Len(s) - Len(sub) + 1) : SubSeq(s, i, i + Len(sub) - 1) = sub}
  IN IF hits = {} THEN 0 ELSE CHOOSE i \in hits : \A j \in hits : i <= j

\* the index \s* leaves off at when it starts at i
SkipWs(s, i) ==
  CHOOSE j \in i..(Len(s) + 1) :
    /\ \A k \in i..(j - 1) : IsWs(s[k])
    /\ (j = Len(s) + 1 \/ ~IsWs(s[j]))

\* the re.search of lines 96 and 161 (a fence, an optional 'json', blanks, the
\* group, blanks, a fence): whether it matches, and group(1). The match starts at the first fence; the optional tag and \s*
\* are greedy, the group is the shortest text followed by blanks and a fence.
FencedBlock(s) ==
  LET i == FindFrom(s, Fence, 1)
      p == i + Len(Fence)
      q == IF SubSeq(s, p, p + Len(JsonTag) - 1) = JsonTag THEN p + Len(JsonTag) ELSE p
      from == SkipWs(s, q)
      close == FindFrom(s, Fence, from)
      stop == CHOOSE e \in from..close :
                /\ \A k \in e..(close - 1) : IsWs(s[k])
                /\ (e = from \/ ~IsWs(s[e - 1]))
  IN IF i = 0 \/ close = 0 THEN [hit |-> FALSE, text |-> <<>>]
     ELSE [hit |-> TRUE, text |-> SubSeq(s, from, stop - 1)]

\* content_str after lines 94-98
Defenced(content_str) ==
  LET match == FencedBlock(content_str)
  IN IF FindFrom(content_str, Fence, 1) # 0 /\ match.hit THEN match.text ELSE content_str

\* ---- JSON text
Quoted(s) == <<"\"">> \o s \o <<"\"">>

RECURSIVE json_dumps(_)
RECURSIVE DumpItems(_)
RECURSIVE DumpPairs(_)
\* the JSON text of a value, written without blanks
json_dumps(v) ==
  CASE v.t = "jarr" -> <<"[">> \o DumpItems(v.items) \o <<"]">>
    [] v.t = "jobj" -> <<"{">> \o DumpPairs(v.pairs) \o <<"}">>
    [] v.t = "jstr" -> Quoted(v.s)
    [] v.t = "jint" -> <<(<<"0", "1", "2">>)[v.n + 1]>>
    [] OTHER -> <<"n", "u", "l", "l">>
DumpItems(items) ==
  IF items = <<>> THEN <<>>
  ELSE json_dumps(items[1]) \o (IF Len(items) = 1 THEN <<>> ELSE <<",">> \o DumpItems(Tail(items)))
DumpPairs(pairs) ==
  IF pairs = <<>> THEN <<>>
  ELSE Quoted(pairs[1].k) \o <<":">> \o json_dumps(pairs[1].v)
         \o (IF Len(pairs) = 1 THEN <<>> ELSE <<",">> \o DumpPairs(Tail(pairs)))

\* the keys the adapter looks for, and the keys of a suggestion
KItems == <<"i", "t", "e", "m", "s">>
KCategories == <<"c", "a", "t", "e", "g", "o", "r", "i", "e", "s">>
KSuggestions == <<"s", "u", "g", "g", "e", "s", "t", "i", "o", "n", "s">>
KName == <<"n", "a", "m", "e">>

\* {"name": name, "instruction": instruction}
Suggestion(name, instruction) == JObj(<<Pair(KName, JStr(name)), Pair(KI, JStr(instruction))>>)

\* the JSON values the model servers answer with: lists of words, a dict
\* with 'wildcards' after 'items', a dict whose second value is its only
\* list, a dict without a list, a str, a list of numbers, a list of
\* suggestions and one wrapped under 'suggestions'
VWords == JArr(<<JStr(<<"y">>), JStr(<<"x">>)>>)
VDup == JArr(<<JStr(<<"z">>), JStr(<<"z">>)>>)
VWrapped ==
  JObj(<<Pair(KItems, JArr(<<JStr(<<"x">>)>>)), Pair(KW, JArr(<<JStr(<<"y">>)>>))>>)
VFallback == JObj(<<Pair(<<"a">>, JStr(<<"x">>)), Pair(<<"b">>, JArr(<<JStr(<<"y">>)>>))>>)
VNoList == JObj(<<Pair(<<"a">>, JStr(<<"x">>))>>)
VStr == JStr(<<"x">>)
VInts == JArr(<<JInt(1)>>)
VSuggestions == JArr(<<Suggestion(<<"n">>, <<"i">>)>>)
VWrappedSuggestions ==
  JObj(<<Pair(KSuggestions, JArr(<<Suggestion(<<"c", " ", "d">>, <<" ", "i", " ">>)>>))>>)
JsonValues ==
  {VWords, VDup, VWrapped, VFallback, VNoList, VStr, VInts, VSuggestions,
   VWrappedSuggestions}

\* text without the blanks around it
StripWs(s) ==
  LET inked == {i \in 1..Len(s) : ~IsWs(s[i])}
  IN IF inked = {} THEN <<>>
     ELSE SubSeq(s, CHOOSE i \in inked : \A j \in inked : i <= j,
                    CHOOSE i \in inked : \A j \in inked : j <= i)

\* json.loads(text): the value whose JSON text this is, blanks around it
\* allowed; any other text raises
JsonTexts == [v \in JsonValues |-> json_dumps(v)]
json_loads(text) ==
  LET stripped == StripWs(text)
      values == {v \in JsonValues : JsonTexts[v] = stripped}
  IN IF values # {} THEN CHOOSE v \in values : TRUE ELSE Raise

\* content[key] when key is in content, for a dict content
HasField(content, key) == \E i \in 1..Len(content.pairs) : content.pairs[i].k = key
Field(content, key) ==
  content.pairs[CHOOSE i \in 1..Len(content.pairs) : content.pairs[i].k = key].v

\* an unwrapping that takes the first list in the dict, named or not
UnwrapFirstList(content, keys, fallback) ==
  IF content.t = "jarr" THEN content
  ELSE IF content.t # "jobj" THEN JArr(<<>>)
  ELSE LET lists == {j \in 1..Len(content.pairs) : content.pairs[j].v.t = "jarr"}
       IN IF lists # {}
          THEN content.pairs[CHOOSE i \in lists : \A j \in lists : i <= j].v
          ELSE JArr(<<>>)

\* lines 101-112: a list as it is; of a dict the list under the first of
\* keys that holds one, then (fallback) the first value that is a list; []
Unwrap(content, keys, fallback) ==
  IF content.t = "jarr" THEN content
  ELSE IF content.t # "jobj" THEN JArr(<<>>)
  ELSE LET named == {i \in 1..Len(keys) :
                       HasField(content, keys[i]) /\ Field(content, keys[i]).t = "jarr"}
           lists == {j \in 1..Len(content.pairs) : content.pairs[j].v.t = "jarr"}
       IN IF named # {}
          THEN Field(content, keys[CHOOSE i \in named : \A j \in named : i <= j])
          ELSE IF fallback /\ lists # {}
          THEN content.pairs[CHOOSE i \in lists : \A j \in lists : i <= j].v
          ELSE JArr(<<>>)

GenerateKeys == <<KW, KItems, KCategories>>
SuggestKeys == <<KItems, KSuggestions, KCategories>>

\* ---- the two calls of the adapter
\* an adapter that sends a request again when the first one fails
GenerateRetrying(provider, keys, mods, answer) ==
  LET prep == _prepare_request(provider, keys, mods, "ARRAY of STRING")
  IN IF ~prep.ok THEN Raised("ValueError", prep.text, 0, <<>>, <<>>)
     ELSE IF answer.k = "response" THEN Returned(JArr(<<>>), <<prep.request>>)
     ELSE Raised("Exception", "An error occurred during API call", 0, <<>>,
                 <<prep.request, prep.request>>)

\* generate_wildcards, given the answer urlopen gives if a request is issued
generate_wildcards(provider, keys, mods, answer) ==
  LET prep == _prepare_request(provider, keys, mods, "ARRAY of STRING")
      sent == <<prep.request>>
      failed == Raised("Exception", "An error occurred during API call", 0, <<>>, sent)
  IN IF ~prep.ok THEN Raised("ValueError", prep.text, 0, <<>>, <<>>)
     ELSE IF answer.k = "urlerror" THEN failed
     ELSE IF answer.k = "httperror" \/ answer.status # 200
     THEN IF answer.readable
          THEN Raised("Exception", "API request failed with status", answer.status,
                      answer.raw, sent)
          ELSE Raised("ValueError", "read of closed file", 0, <<>>, sent)
     ELSE LET part == json_loads(answer.body.text)
              content == json_loads(Defenced(answer.body.text))
          IN IF provider = "gemini"
             THEN IF answer.body.b = "candidates" /\ part # Raise
                  THEN Returned(part, sent)
                  ELSE failed
             ELSE IF answer.body.b = "choices" /\ content # Raise
                  THEN Returned(Unwrap(content, GenerateKeys, TRUE), sent)
                  ELSE failed

\* suggest_items likewise: no status check, every failure wrapped alike as
\* f"Suggestion API call failed: {e}"; the text of an HTTPError is
\* 'HTTP Error {code}: {msg}', which has the status and not the body
suggest_items(provider, keys, mods, answer) ==
  LET prep == _prepare_request(provider, keys, mods, "ARRAY of OBJECT")
      sent == <<prep.request>>
      failed == Raised("Exception", "Suggestion API call failed", 0, <<>>, sent)
  IN IF ~prep.ok THEN Raised("ValueError", prep.text, 0, <<>>, <<>>)
     ELSE IF answer.k = "urlerror" THEN failed
     ELSE IF answer.k = "httperror"
     THEN Raised("Exception", "Suggestion API call failed: HTTP Error", answer.status,
                 <<>>, sent)
     ELSE LET part == json_loads(answer.body.text)
              content == json_loads(Defenced(answer.body.text))
          IN IF provider = "gemini"
             THEN IF answer.body.b = "candidates" /\ part # Raise
                  THEN Returned(part, sent)
                  ELSE failed
             ELSE IF answer.body.b = "choices" /\ content # Raise
                  THEN Returned(Unwrap(content, SuggestKeys, FALSE), sent)
                  ELSE failed

\* ------------------------------------------- handlers that use the adapter
\* gr.Info and gr.Warning show a notification when called. gr.Error is
\* gradio's exception class: a call that is not raised builds the exception
\* object and drops it, showing nothing.
Info(text) == [level |-> "info", text |-> text]
Warning(text) == [level |-> "warning", text |-> text]
ErrorNotRaised(text) == <<>>

\* no call of the adapter was made
NoCall == [ok |-> FALSE, val |-> JNull, type |-> "none", text |-> "", code |-> 0,
           body |-> <<>>, requests |-> <<>>]
\* no answer was consumed
NoAnswer == Answer("none", 0, BodyOther, <<>>, FALSE)

\* update_settings(provider, key, model, url, state): the settings it leaves
\* a settings event that stores the fields and makes its provider the active
\* one only when the key it carries is the stored one
UpdateWithoutActivating(provider, key, model, url, keys, mods) ==
  [api_keys |-> [keys EXCEPT ![provider] = key],
   models |-> [j \in DOMAIN mods |->
                 IF j = provider THEN model
                 ELSE IF j = "custom_url" /\ provider = "custom" THEN url
                 ELSE mods[j]],
   active_provider |-> IF keys[provider] = key THEN provider ELSE "gemini"]

update_settings(provider, key, model, url, keys, mods) ==
  [api_keys |-> [keys EXCEPT ![provider] = key],
   models |-> [j \in DOMAIN mods |->
                 IF j = provider THEN model
                 ELSE IF j = "custom_url" /\ provider = "custom" THEN url
                 ELSE mods[j]],
   active_provider |-> provider]

\* a returned value that existing_words + new_wildcards and set() accept: a
\* list of strings and numbers (a dict or a list in it is unhashable)
IsHashableList(val) ==
  val.t = "jarr" /\ \A i \in 1..Len(val.items) : val.items[i].t \in {"jstr", "jint"}
Words(val) ==
  [i \in 1..Len(val.items) |->
     IF val.items[i].t = "jint" THEN IntWord(val.items[i].n) ELSE val.items[i].s]
\* sorted() accepts the merged list: it raises when it has to compare a str
\* with an int
Mergeable(existing_words, val) ==
  /\ IsHashableList(val)
  /\ ~(HasIntWord(existing_words \o Words(val)) /\ HasStrWord(existing_words \o Words(val)))

\* generate_more_handler once data_node has been read and for what the
\* adapter call gives (out): the call is made when data_node has a .get,
\* and anything but a list of strings fails inside the try
GenerateOutcome(path, tree, called, api_result, out) ==
  [tree |-> generate_more_handler(path, api_result, tree).tree,
   raised |-> generate_more_handler(path, api_result, tree).raised,
   api_result |-> IF called THEN api_result ELSE ApiRaise,
   call |-> IF called THEN out ELSE NoCall,
   notes |-> IF path = <<>> THEN <<Warning("No category selected!")>>
             ELSE IF ~called THEN <<>>
             ELSE IF api_result.ok
             THEN <<Info("Generating wildcards"), Info("Generation complete!")>>
             ELSE <<Info("Generating wildcards")>> \o ErrorNotRaised("Generation failed")]
\* the adapter is reached when data_node has a .get; new_wildcards is
\* usable when the call returned a list that merges with existing_words
GenerateOf(path, tree, existing_words, out) ==
  GenerateOutcome(path, tree,
                  /\ path # <<>>
                  /\ get_data_by_path(path, tree) # Raise
                  /\ IsDict(get_data_by_path(path, tree)),
                  IF out.ok /\ Mergeable(existing_words, out.val)
                  THEN ApiList(Words(out.val)) ELSE ApiRaise,
                  out)
\* existing_words, where the handler gets to read it
ExistingWords(path, tree) ==
  IF path # <<>> /\ get_data_by_path(path, tree) # Raise /\ IsDict(get_data_by_path(path, tree))
  THEN NodeWildcards(get_data_by_path(path, tree))
  ELSE <<>>
\* the call of api.generate_wildcards: ', '.join(existing_words[:50]) raises
\* TypeError on an int, before the request is prepared
GenerateCall(existing_words, provider, keys, mods, answer) ==
  IF HasIntWord(existing_words)
  THEN Raised("TypeError", "sequence item: expected str instance, int found", 0, <<>>, <<>>)
  ELSE generate_wildcards(provider, keys, mods, answer)
GenerateWith(path, tree, existing_words, provider, keys, mods, answer) ==
  GenerateOf(path, tree, existing_words,
             GenerateCall(existing_words, provider, keys, mods, answer))
\* generate_more_handler with the adapter call it makes
GenerateMore(path, tree, provider, keys, mods, answer) ==
  GenerateWith(path, tree, ExistingWords(path, tree), provider, keys, mods, answer)

\* f"{s['name']} - {s['instruction']}" for a suggestion with both keys
Label(sug) == Field(sug, KName).s \o LabelSep \o Field(sug, KI).s
IsSuggestion(sug) ==
  /\ sug.t = "jobj"
  /\ HasField(sug, KName) /\ Field(sug, KName).t = "jstr"
  /\ HasField(sug, KI) /\ Field(sug, KI).t = "jstr"
\* the comprehension of line 121 runs through: every element has both keys
\* (an empty str or dict gives no element at all)
LabelsOk(val) ==
  CASE val.t = "jarr" -> \A i \in 1..Len(val.items) : IsSuggestion(val.items[i])
    [] val.t = "jstr" -> val.s = <<>>
    [] val.t = "jobj" -> val.pairs = <<>>
    [] OTHER -> FALSE
Labels(val) == IF val.t = "jarr" THEN [i \in 1..Len(val.items) |-> Label(val.items[i])] ELSE <<>>

\* suggest_handler for the structure it read outside the try and for what
\* the adapter call gives (out)
SuggestOutcome(tree, structure, out, shown) ==
  IF structure = Raise
  THEN [tree |-> tree, raised |-> TRUE, call |-> NoCall, notes |-> <<>>,
        shown |-> FALSE, choices |-> <<>>]
  ELSE [tree |-> tree, raised |-> FALSE, call |-> out,
        notes |-> <<Info("Asking for suggestions")>>
                    \o (IF shown THEN <<>> ELSE ErrorNotRaised("Suggestion failed")),
        shown |-> shown, choices |-> IF shown THEN Labels(out.val) ELSE <<>>]
\* the choices are built when the call returned and line 121 runs through
SuggestOf(path, tree, out) ==
  SuggestOutcome(tree, get_parent_structure_by_path(path, tree), out,
                 out.ok /\ LabelsOk(out.val))
\* suggest_handler with the adapter call it makes
suggest_handler(path, tree, provider, keys, mods, answer) ==
  SuggestOf(path, tree, suggest_items(provider, keys, mods, answer))

\* gr.Info(f"Added {added_count} new categories."), reached when
\* get_all_paths has not raised
AcceptNotes(selected_suggestions, failed) ==
  IF selected_suggestions = <<>> \/ failed THEN <<>>
  ELSE <<Info("Added new categories.")>>

\* what writing a file does: it succeeds, open fails (nothing is written),
\* or the dump fails after open has truncated the file
IoOutcomes == {"ok", "open fails", "dump fails"}

\* save_handler: the notifications shown and the data file it leaves
save_handler(tree, file, io) ==
  [notes |-> IF io = "ok" THEN <<Info("Saved to")>> ELSE ErrorNotRaised("Save failed"),
   data_file |-> IF io = "ok" THEN reconstruct_yaml_structure(tree)
                 ELSE IF io = "open fails" THEN file
                 ELSE YNone]

\* export_handler: the download component it leaves (gr.update() leaves it
\* as it is) and the notifications shown
Download(visible, value) == [visible |-> visible, value |-> value]
export_handler(tree, download, io) ==
  [notes |-> IF io = "ok" THEN <<>> ELSE ErrorNotRaised("Export failed"),
   download_file |-> IF io = "ok" THEN Download(TRUE, reconstruct_yaml_structure(tree))
                     ELSE download]

\* search_handler: the choices it returns, or the exception of get_all_paths
search_handler(term, tree) ==
  IF get_all_paths_raises(tree) THEN Raise
  ELSE LET paths == get_all_paths(tree)
       IN IF Strip(term) = <<>> THEN L(paths)
          ELSE L(Filter(paths, {q \in Elems(paths) : ~Contains(q, term)}))

\* on_path_change: the choices it returns, or the exception of a str or list
on_path_change(path, tree) ==
  LET data_node == get_data_by_path(path, tree)
  IN IF data_node = Raise THEN Raise
     ELSE IF ~Truthy(data_node) THEN L(<<>>)
     ELSE IF ~IsDict(data_node) THEN Raise
     ELSE L(NodeWildcards(data_node))

\* ------------------------------------------------------------------ inputs
\* The strings the handlers are called with. Category names equal to the
\* reserved keys are not among them; paths through the reserved keys are.
sa == <<"a">>
sb == <<"b">>
sx == <<"x">>
sy == <<"y">>
sz == <<"z">>
si == <<"i">>
pAB == <<"a", "/", "b">>
pAInstr == sa \o <<"/">> \o KI
pAWildX == sa \o <<"/">> \o KW \o <<"/", "x">>

PathInputs == {<<>>, sa, sb, pAB, pAInstr, pAWildX}
NameInputs == {<<" ">>, <<"b", " ">>, pAB, <<"a", "/", "/", "b">>}
WildcardInputs == {sx, <<" ", "y">>, <<" ">>}
SelectedInputs == {<<>>, <<sx>>, <<sy, sx>>}
\* what the settings fields hold when a settings event fires
KeyInputs == {<<>>, <<"k">>}
ModelInputs == {<<"m">>}
\* "u/" stands for a well-formed base URL that ends in a slash
UrlInputs == {<<>>, <<"u", "/">>}
TermInputs == {<<" ">>, sa}

\* a fenced code block around text
Fenced(tag, text) == Fence \o tag \o <<"\n">> \o text \o <<"\n">> \o Fence
\* What urlopen answers: failures, a 204, bodies that are not JSON or lack
\* the expected key, and message contents (lists of words, a str, a list of
\* numbers, suggestions) bare, fenced (with and without
\* the json tag, with text before the fence), with an unclosed fence, and
\* not JSON.
Answers ==
  {URLError, HTTPError(500, <<"e">>), Response(204, BodyOther),
   Response(200, BodyNotJson), Response(200, BodyOther),
   Response(200, BodyCandidates(json_dumps(VWords))),
   Response(200, BodyCandidates(json_dumps(VStr))),
   Response(200, BodyCandidates(json_dumps(VInts))),
   Response(200, BodyCandidates(json_dumps(VSuggestions))),
   Response(200, BodyChoices(json_dumps(VDup))),
   Response(200, BodyChoices(Fenced(JsonTag, json_dumps(VWrapped)))),
   Response(200, BodyChoices(Fence \o json_dumps(VFallback) \o Fence)),
   Response(200, BodyChoices(json_dumps(VNoList))),
   Response(200, BodyChoices(Fence \o JsonTag \o json_dumps(VWords))),
   Response(200, BodyChoices(<<"o", "k", " ">> \o Fenced(<<>>, json_dumps(VWrappedSuggestions)))),
   Response(200, BodyChoices(<<"x">>))}
\* 'n - i', 'a/b', 'c d -  i ', ' - i' and 'b  - i' (the name 'b ')
LabelInputs ==
  {<<>>,
   <<<<"n", " ", "-", " ", "i">>>>,
   <<pAB>>,
   <<<<"c", " ", "d", " ", "-", " ", " ", "i", " ">>>>,
   <<<<" ", "-", " ", "i">>>>,
   <<<<"b", " ", " ", "-", " ", "i">>>>}

\* a: [y, 1]  with the comment '# instruction: i' on a
FileLeaf ==
  YMap([k \in {sa} |-> YSeq(<<S(sy), YInt(1)>>)],
       [k \in {sa} |-> InstructionPrefix \o <<" ">> \o si \o <<" ">>])
\* a: {b: [x]} with the comment '#i' on a, and b: {}
FileNested ==
  YMap([k \in {sa, sb} |->
          IF k = sa THEN YMap([j \in {sb} |-> YSeq(<<S(sx)>>)], <<>>)
          ELSE YMap(<<>>, <<>>)],
       [k \in {sa} |-> <<"#">> \o si])
\* a: [x, x]
FileDup == YMap([k \in {sa} |-> YSeq(<<S(sx), S(sx)>>)], <<>>)
\* a top-level sequence: [x]
FileSeq == YSeq(<<S(sx)>>)
\* a top-level scalar: y
FileScalar == YScalar(S(sy))

\* a top-level scalar: 0
FileZero == YScalar(YInt(0))

InitialFiles == {NoFile, Malformed, YNone, FileLeaf, FileNested, FileDup, FileZero}
UploadedFiles ==
  {NoFile, Malformed, YNone, FileLeaf, FileNested, FileDup, FileSeq, FileScalar, FileZero}

\* -------------------------------------------------------------------- state
\* wildcards:       state['wildcards'], the category tree
\* api_keys, models, active_provider: the settings in state
\* data_file:       the content of web/data/initial-data.yaml
\* download_file:   the download component (visible, the exported document)
\* prev:            the tree before the last handler call
\* op:              the last handler call and its arguments
\* raised:          whether an exception propagated out of the last call
\* call:            what the adapter call of the last handler call gave, with
\*                  the HTTP requests it issued
\* answer:          the answer urlopen gave to the last call's request
\* notes:           the notifications the last handler call showed
\* steps:           the number of handler calls made
VARIABLES wildcards, api_keys, models, active_provider, data_file, download_file,
          prev, op, raised, call, answer, notes, steps
vars == <<wildcards, api_keys, models, active_provider, data_file, download_file,
          prev, op, raised, call, answer, notes, steps>>
settings == <<api_keys, models, active_provider>>
files == <<data_file, download_file>>

Call(name, path, arg, file) == [name |-> name, path |-> path, arg |-> arg, file |-> file]

\* the answer a call consumed: none when it issued no request
Consumed(out, ans) == IF out.requests = <<>> THEN NoAnswer ELSE ans
\* urlopen answers the requests that are issued: with these settings none is
\* unless the request can be prepared
AnswersFor(provider, keys, mods) ==
  IF _prepare_request(provider, keys, mods, "").ok THEN Answers ELSE {NoAnswer}

Init ==
  /\ \E f \in InitialFiles :
       /\ wildcards = load_initial_data(f)
       /\ op = Call("load_initial_data", <<>>, <<>>, f)
       /\ data_file = f
  /\ api_keys = [p \in Providers |-> <<>>]
  /\ models = [j \in Providers \cup {"custom_url"} |->
                 CASE j = "gemini" -> <<"gemini-1.5-flash">>
                   [] j = "openrouter" -> <<"openai/gpt-3.5-turbo">>
                   [] OTHER -> <<>>]
  /\ active_provider = "gemini"
  /\ download_file = Download(FALSE, NoFile)
  /\ prev = EmptyDict
  /\ raised = FALSE
  /\ call = NoCall
  /\ answer = NoAnswer
  /\ notes = <<>>
  /\ steps = 0

\* Each action is one handler call: it records the call and the tree before
\* it, and leaves what the handler leaves.
UpdateSettings ==
  \E provider \in Providers, event \in {"change", "select"},
     k \in KeyInputs, m \in ModelInputs, u \in UrlInputs :
    LET key == IF event = "select" THEN api_keys[provider] ELSE k
        model == IF event = "select" THEN models[provider] ELSE m
        url == IF event = "select" \/ provider # "custom" THEN models["custom_url"] ELSE u
        r == update_settings(provider, key, model, url, api_keys, models)
    IN /\ steps < MaxSteps
       /\ steps' = steps + 1
       /\ prev' = wildcards
       /\ op' = Call("update_settings", <<>>, <<<<provider>>, key, model, url>>, NoFile)
       /\ api_keys' = r.api_keys
       /\ models' = r.models
       /\ active_provider' = r.active_provider
       /\ raised' = FALSE
       /\ call' = NoCall /\ answer' = NoAnswer /\ notes' = <<>>
       /\ UNCHANGED <<wildcards, files>>

OnPathChange ==
  \E path \in PathInputs :
    /\ steps < MaxSteps
    /\ steps' = steps + 1
    /\ prev' = wildcards
    /\ op' = Call("on_path_change", path, <<>>, NoFile)
    /\ raised' = (on_path_change(path, wildcards) = Raise)
    /\ call' = NoCall /\ answer' = NoAnswer /\ notes' = <<>>
    /\ UNCHANGED <<wildcards, settings, files>>

CreateCategoryConfirm ==
  \E name \in NameInputs :
    LET r == create_category_confirm(name, wildcards)
    IN /\ steps < MaxSteps
       /\ steps' = steps + 1
       /\ prev' = wildcards
       /\ op' = Call("create_category_confirm", name, <<>>, NoFile)
       /\ wildcards' = r.tree
       /\ raised' = r.raised
       /\ call' = NoCall /\ answer' = NoAnswer /\ notes' = <<>>
       /\ UNCHANGED <<settings, files>>

DeleteCategoryHandler ==
  \E path \in PathInputs :
    LET r == delete_category_handler(path, wildcards)
    IN /\ steps < MaxSteps
       /\ steps' = steps + 1
       /\ prev' = wildcards
       /\ op' = Call("delete_category_handler", path, <<>>, NoFile)
       /\ wildcards' = r.tree
       /\ raised' = r.raised
       /\ call' = NoCall /\ answer' = NoAnswer /\ notes' = <<>>
       /\ UNCHANGED <<settings, files>>

AddWildcardHandler ==
  \E path \in PathInputs, w \in WildcardInputs :
    LET r == add_wildcard_handler(path, w, wildcards)
    IN /\ steps < MaxSteps
       /\ steps' = steps + 1
       /\ prev' = wildcards
       /\ op' = Call("add_wildcard_handler", path, <<w>>, NoFile)
       /\ wildcards' = r.tree
       /\ raised' = r.raised
       /\ call' = NoCall /\ answer' = NoAnswer /\ notes' = <<>>
       /\ UNCHANGED <<settings, files>>

DeleteSelectedHandler ==
  \E path \in PathInputs, selected \in SelectedInputs :
    LET r == delete_selected_handler(path, selected, wildcards)
    IN /\ steps < MaxSteps
       /\ steps' = steps + 1
       /\ prev' = wildcards
       /\ op' = Call("delete_selected_handler", path, selected, NoFile)
       /\ wildcards' = r.tree
       /\ raised' = r.raised
       /\ call' = NoCall /\ answer' = NoAnswer /\ notes' = <<>>
       /\ UNCHANGED <<settings, files>>

GenerateMoreHandler ==
  /\ steps < MaxSteps
  /\ \E path \in PathInputs, ans \in AnswersFor(active_provider, api_keys, models) :
     \E r \in {GenerateMore(path, wildcards, active_provider, api_keys, models, ans)} :
       /\ steps' = steps + 1
       /\ prev' = wildcards
       /\ op' = Call(IF r.api_result.ok THEN "generate_more_handler"
                     ELSE "generate_more_handler_failed",
                     path, r.api_result.words, NoFile)
       /\ wildcards' = r.tree
       /\ raised' = r.raised
       /\ call' = r.call
       /\ answer' = Consumed(r.call, ans)
       /\ notes' = r.notes
       /\ UNCHANGED <<settings, files>>

SuggestHandler ==
  /\ steps < MaxSteps
  /\ \E path \in PathInputs, ans \in AnswersFor(active_provider, api_keys, models) :
     \E r \in {suggest_handler(path, wildcards, active_provider, api_keys, models, ans)} :
       /\ steps' = steps + 1
       /\ prev' = wildcards
       /\ op' = Call("suggest_handler", path, r.choices, NoFile)
       /\ raised' = r.raised
       /\ call' = r.call
       /\ answer' = Consumed(r.call, ans)
       /\ notes' = r.notes
       /\ UNCHANGED <<wildcards, settings, files>>

AcceptSuggestionsHandler ==
  \E path \in PathInputs, selected \in LabelInputs :
    LET r == accept_suggestions_handler(selected, path, wildcards)
    IN /\ steps < MaxSteps
       /\ steps' = steps + 1
       /\ prev' = wildcards
       /\ op' = Call("accept_suggestions_handler", path, selected, NoFile)
       /\ wildcards' = r.tree
       /\ raised' = r.raised
       /\ call' = NoCall /\ answer' = NoAnswer
       /\ notes' = AcceptNotes(selected, r.raised)
       /\ UNCHANGED <<settings, files>>

SearchHandler ==
  \E term \in TermInputs :
    /\ steps < MaxSteps
    /\ steps' = steps + 1
    /\ prev' = wildcards
    /\ op' = Call("search_handler", <<>>, <<term>>, NoFile)
    /\ raised' = (search_handler(term, wildcards) = Raise)
    /\ call' = NoCall /\ answer' = NoAnswer /\ notes' = <<>>
    /\ UNCHANGED <<wildcards, settings, files>>

ExportHandler ==
  \E io \in {"ok", "open fails"} :
    LET r == export_handler(wildcards, download_file, io)
    IN /\ steps < MaxSteps
       /\ steps' = steps + 1
       /\ prev' = wildcards
       /\ op' = Call(IF io = "ok" THEN "export_handler" ELSE "export_handler_failed",
                     <<>>, <<>>, NoFile)
       /\ download_file' = r.download_file
       /\ raised' = FALSE
       /\ call' = NoCall /\ answer' = NoAnswer
       /\ notes' = r.notes
       /\ UNCHANGED <<wildcards, settings, data_file>>

SaveHandler ==
  \E io \in IoOutcomes :
    LET r == save_handler(wildcards, data_file, io)
    IN /\ steps < MaxSteps
       /\ steps' = steps + 1
       /\ prev' = wildcards
       /\ op' = Call(IF io = "ok" THEN "save_handler" ELSE "save_handler_failed",
                     <<>>, <<>>, NoFile)
       /\ data_file' = r.data_file
       /\ raised' = FALSE
       /\ call' = NoCall /\ answer' = NoAnswer
       /\ notes' = r.notes
       /\ UNCHANGED <<wildcards, settings, download_file>>

ImportHandler ==
  \E file \in UploadedFiles :
    LET r == import_handler(file, wildcards)
        replaced == file \notin {NoFile, Malformed} /\ DocTruthy(file)
    IN /\ steps < MaxSteps
       /\ steps' = steps + 1
       /\ prev' = wildcards
       /\ op' = Call("import_handler", <<>>, <<>>, file)
       /\ wildcards' = r.tree
       /\ raised' = r.raised
       /\ download_file' = IF replaced /\ ~get_all_paths_raises(r.tree)
                           THEN Download(FALSE, download_file.value)
                           ELSE download_file
       /\ call' = NoCall /\ answer' = NoAnswer
       /\ notes' = IF file = Malformed THEN ErrorNotRaised("Import failed") ELSE <<>>
       /\ UNCHANGED <<settings, data_file>>

Next ==
  \/ UpdateSettings
  \/ OnPathChange
  \/ CreateCategoryConfirm
  \/ DeleteCategoryHandler
  \/ AddWildcardHandler
  \/ DeleteSelectedHandler
  \/ GenerateMoreHandler
  \/ SuggestHandler
  \/ AcceptSuggestionsHandler
  \/ SearchHandler
  \/ ExportHandler
  \/ SaveHandler
  \/ ImportHandler

Spec == Init /\ [][Next]_vars

\* A session in which a generation has stored numbers: a gemini key has been
\* set and generate_more_handler, answered with the list [1], has merged it
\* into a category without wildcards. Spec reaches each of these states in
\* two steps; started from them the same handlers run on such a tree.
InitStored ==
  \E f \in InitialFiles, path \in PathInputs :
  \E s \in {update_settings("gemini", <<"k">>, <<"m">>, <<>>,
                            [p \in Providers |-> <<>>],
                            [j \in Providers \cup {"custom_url"} |->
                               CASE j = "gemini" -> <<"gemini-1.5-flash">>
                                 [] j = "openrouter" -> <<"openai/gpt-3.5-turbo">>
                                 [] OTHER -> <<>>])} :
  \E r \in {GenerateMore(path, load_initial_data(f), "gemini", s.api_keys, s.models,
                         Response(200, BodyCandidates(json_dumps(VInts))))} :
    /\ r.api_result.ok /\ r.tree # load_initial_data(f)
    /\ wildcards = r.tree
    /\ prev = load_initial_data(f)
    /\ op = Call("generate_more_handler", path, r.api_result.words, NoFile)
    /\ data_file = f
    /\ api_keys = s.api_keys
    /\ models = s.models
    /\ active_provider = s.active_provider
    /\ download_file = Download(FALSE, NoFile)
    /\ raised = r.raised
    /\ call = r.call
    /\ answer = Response(200, BodyCandidates(json_dumps(VInts)))
    /\ notes = r.notes
    /\ steps = 0

SpecStored == InitStored /\ [][Next]_vars

\* ------------------------------------------------------- views of the tree
\* the keys of a node that name child categories
ChildKeys(n) == Keys(n) \ {KI, KW}

RECURSIVE Locs(_)
\* the key sequences of the category nodes under node, node itself as <<>>
Locs(node) ==
  {<<>>} \cup UNION {{<<k>> \o l : l \in Locs(node.d[k])} :
                      k \in {j \in ChildKeys(node) : IsDict(node.d[j])}}

RECURSIVE NodeAt(_, _)
\* the node at a key sequence of Locs
NodeAt(node, loc) == IF loc = <<>> THEN node ELSE NodeAt(node.d[loc[1]], Tail(loc))

\* the category nodes of the tree, the root mapping apart
CategoryLocs(tree) == Locs(tree) \ {<<>>}
\* the leaves of the tree, at any depth
LeafLocs(tree) == {l \in CategoryLocs(tree) : IsLeafValue(NodeAt(tree, l))}

RECURSIVE ReportedLocs(_)
\* the key sequences of the leaves get_all_paths reports
ReportedLocs(node) ==
  UNION {IF IsLeafValue(node.d[k]) THEN {<<k>>}
         ELSE IF IsDict(node.d[k]) THEN {<<k>> \o l : l \in ReportedLocs(node.d[k])}
         ELSE {} : k \in Keys(node) \ {KI}}

RECURSIVE PathFrom(_, _)
\* the path get_all_paths builds for a key sequence
PathFrom(parent_path, loc) ==
  IF loc = <<>> THEN parent_path ELSE PathFrom(ChildPath(parent_path, loc[1]), Tail(loc))
PathOf(loc) == PathFrom(<<>>, loc)

\* data_node.get('instruction', '')
NodeInstruction(n) == IF KI \in Keys(n) THEN n.d[KI].s ELSE <<>>

StrictlySorted(ws) == \A i \in 1..Len(ws) : \A j \in 1..Len(ws) : i < j => StrLess(ws[i], ws[j])

\* ------------------------------------------------------------------ claims

\* C1: in every reachable state no node that has a 'wildcards' list also has
\* a child category key (a node is a leaf or a branch, never both).
C1_LeafXorBranch ==
  \A l \in Locs(wildcards) :
    ~(IsLeafValue(NodeAt(wildcards, l)) /\ ChildKeys(NodeAt(wildcards, l)) # {})

\* C2: decoding the encoding of the tree gives the same set of paths and,
\* for every path, the same set of wildcards and the same instruction.
C2_RoundTrip ==
  LET back == process_ruamel_node(reconstruct_yaml_structure(wildcards))
      paths == Elems(get_all_paths(wildcards))
  IN /\ Elems(get_all_paths(back)) = paths
     /\ \A p \in paths :
          LET n == get_data_by_path(p, wildcards)
              m == get_data_by_path(p, back)
          IN /\ Elems(NodeWildcards(n)) = Elems(NodeWildcards(m))
             /\ NodeInstruction(n) = NodeInstruction(m)

\* C3: in every reachable state the wildcards list of every leaf has no
\* duplicate entry and is in sorted order.
C3_SortedUnique ==
  \A l \in LeafLocs(wildcards) : StrictlySorted(NodeAt(wildcards, l).d[KW].l)

\* C4: every path get_all_paths returns resolves through get_data_by_path to
\* the leaf that produced it, and two distinct leaves never have the same path.
C4_PathsIdentifyLeaves ==
  LET locs == ReportedLocs(wildcards)
  IN /\ \A l \in locs :
          /\ Split(PathOf(l), "/") = l
          /\ get_data_by_path(PathOf(l), wildcards) = NodeAt(wildcards, l)
     /\ \A l1 \in locs : \A l2 \in locs : PathOf(l1) = PathOf(l2) => l1 = l2

\* C5: in every reachable state every category key is a non-empty string
\* that contains no '/'.
C5_KeysWellFormed ==
  \A l \in CategoryLocs(wildcards) :
    \A i \in 1..Len(l) : l[i] # <<>> /\ "/" \notin Elems(l[i])

\* C6: get_all_paths returns, sorted and without duplicates, exactly the
\* '/'-joined key sequences leading from the root to each leaf at any depth;
\* an empty branch gives no path and 'instruction' is never a category.
C6_AllPathsExact ==
  get_all_paths(wildcards) = SetToSorted({Join(l, "/") : l \in LeafLocs(wildcards)})

\* C7: get_data_by_path never raises, returns the addressed node when every
\* segment names a child of the previous node, and the absent-node sentinel
\* (None for the empty path, {} otherwise) when a segment is missing.
C7_ResolveNeverRaises ==
  \A p \in PathInputs :
    LET r == get_data_by_path(p, wildcards)
        parts == Split(p, "/")
    IN /\ r # Raise
       /\ IF p # <<>> /\ Attached(wildcards, parts)
          THEN r = NodeAt(wildcards, parts)
          ELSE r \in {NoneV, EmptyDict}

\* C8: delete_category_handler(path) removes exactly the category node that
\* path addresses from its parent mapping, the parent staying present, and
\* every other node keeps its wildcards, instruction and children (so a path
\* that addresses no category node removes nothing).
C8_DeleteRemovesExactlyNode ==
  op.name = "delete_category_handler" =>
    LET parts == Split(op.path, "/")
    IN IF op.path # <<>> /\ parts \in CategoryLocs(prev)
       THEN wildcards = SetAt(prev, Front(parts),
                              DictDel(NodeAt(prev, Front(parts)), parts[Len(parts)]))
       ELSE wildcards = prev

\* C9: in every reachable state every node of the tree, leaf or branch, has
\* an 'instruction' field whose value is a string.
C9_InstructionPresent ==
  \A l \in CategoryLocs(wildcards) :
    LET n == NodeAt(wildcards, l)
    IN KI \in Keys(n) /\ n.d[KI].t = "str"

\* C10: add_wildcard_handler(path, w) on an existing leaf leaves the leaf's
\* wildcards the sorted duplicate-free union of the previous ones and the
\* trimmed w; re-adding a wildcard already present leaves the list
\* unchanged; a blank w changes nothing.
C10_AddWildcard ==
  (op.name = "add_wildcard_handler" /\ op.path # <<>>
     /\ Split(op.path, "/") \in LeafLocs(prev)) =>
    LET loc == Split(op.path, "/")
        w == Strip(op.arg[1])
        old == NodeAt(prev, loc).d[KW].l
    IN IF w = <<>> THEN wildcards = prev
       ELSE /\ loc \in LeafLocs(wildcards)
            /\ NodeAt(wildcards, loc).d[KW].l = SetToSorted(Elems(old) \cup {w})
            /\ (w \in Elems(old) => NodeAt(wildcards, loc).d[KW].l = old)
            /\ wildcards = SetAt(prev, loc, NodeAt(wildcards, loc))

\* ------------------------------------------------ claims about the decoder
\* the document the last call decoded, when it decoded one
Decoded ==
  /\ op.name \in {"load_initial_data", "import_handler"}
  /\ op.file \notin {NoFile, Malformed}
  /\ DocTruthy(op.file)

\* ws is sorted, duplicates allowed
WeaklySorted(ws) == \A i \in 1..Len(ws) : \A j \in 1..Len(ws) : i < j => ~StrLess(ws[j], ws[i])
\* ws holds the same strings as xs, each as many times
SameBag(ws, xs) ==
  /\ Len(ws) = Len(xs)
  /\ \A e \in Elems(ws) \cup Elems(xs) :
       Cardinality({i \in 1..Len(ws) : ws[i] = e}) = Cardinality({i \in 1..Len(xs) : xs[i] = e})

\* instr is what is left of the comment c once its surrounding blanks, its
\* leading '# instruction:' (or bare '#') and the blanks after it are removed
InstructionOf(instr, c) ==
  LET text == Strip(c)
      pre == IF StartsWith(text, InstructionPrefix) THEN InstructionPrefix ELSE HashPrefix
  IN IF ~StartsWith(text, HashPrefix) THEN instr = <<>>
     ELSE \E i \in Len(pre)..Len(text) :
            /\ \A j \in (Len(pre) + 1)..i : IsSpace(text[j])
            /\ instr = SubSeq(text, i + 1, Len(text))
            /\ (instr = <<>> \/ ~IsSpace(instr[1]))

RECURSIVE DecodesTo(_, _)
\* r is the decoding of the document doc, the instruction of r itself (which
\* the parent's comment decides) apart
DecodesTo(doc, r) ==
  CASE doc.t = "seq" ->
         /\ Keys(r) = {KI, KW} /\ IsList(r.d[KW])
         /\ WeaklySorted(r.d[KW].l)
         /\ SameBag(r.d[KW].l, [i \in 1..Len(doc.items) |-> PyStr(doc.items[i])])
    [] doc.t = "scalar" ->
         /\ Keys(r) = {KI, KW} /\ IsList(r.d[KW])
         /\ r.d[KW].l = <<PyStr(doc.x)>>
    [] doc.t = "map" ->
         /\ IsDict(r) /\ Keys(r) \ {KI} = DOMAIN doc.m
         /\ \A k \in DOMAIN doc.m :
              /\ DecodesTo(doc.m[k], r.d[k])
              /\ KI \in Keys(r.d[k]) /\ r.d[k].d[KI].t = "str"
              /\ IF k \in DOMAIN doc.ca
                 THEN InstructionOf(r.d[k].d[KI].s, doc.ca[k])
                 ELSE r.d[k].d[KI].s = <<>>
    [] OTHER -> FALSE

\* a top-level sequence or scalar is a leaf without instruction, a top-level
\* mapping a branch without one
DecodesTop(doc, r) ==
  /\ DecodesTo(doc, r)
  /\ IF doc.t = "map" THEN KI \notin Keys(r) ELSE r.d[KI] = S(<<>>)

\* C11: process_ruamel_node decodes a sequence to a leaf whose wildcards are
\* the stringified elements in sorted order, a scalar to a single-element
\* leaf, a mapping to a branch of recursively decoded children; a child's
\* instruction is the text of the comment on its key, the leading
\* '# instruction:' (or bare '#') removed and trimmed, and '' without comment.
C11_Decode == Decoded => DecodesTop(op.file, wildcards)

\* a leaf decoded from [y, 1] under a key commented '# instruction: i ', and
\* a branch decoded from a nested mapping commented '#i'
C11_Witness ==
  \/ /\ op.name = "import_handler" /\ op.file = FileLeaf
     /\ wildcards = D([k \in {sa} |-> Leaf(si, <<<<"1">>, sy>>)])
  \/ /\ op.name = "import_handler" /\ op.file = FileNested
     /\ wildcards.d[sa].d[KI] = S(si)
     /\ wildcards.d[sa].d[sb] = Leaf(<<>>, <<sx>>)

\* C12: after import_handler is given a file that parses, the tree is the
\* decoding of that document and holds nothing of the previous tree; an
\* empty document decodes to an empty branch.
C12_ImportReplaces ==
  (op.name = "import_handler" /\ op.file \notin {NoFile, Malformed}) =>
    IF op.file = YNone THEN wildcards = EmptyDict
    ELSE DecodesTop(op.file, wildcards)

\* C13: get_parent_structure_by_path(path) is exactly the names of the
\* categories that are children of the branch one level above path, the
\* top-level category names for an empty or single-segment path.
C13_SiblingKeys ==
  \A path \in PathInputs :
    LET parts == IF path = <<>> THEN <<>> ELSE Split(path, "/")
        above == IF parts = <<>> THEN <<>> ELSE Front(parts)
    IN (above \in Locs(wildcards) /\ ~IsLeafValue(NodeAt(wildcards, above))) =>
         get_parent_structure_by_path(path, wildcards)
           = KeyList({k \in ChildKeys(NodeAt(wildcards, above)) :
                        IsDict(NodeAt(wildcards, above).d[k])})

\* --------------------------------------------- claims about the API adapter
\* the provider lacks what its request needs
Unconfigured(provider, keys, mods) ==
  CASE provider = "gemini" -> keys["gemini"] = <<>>
    [] provider = "openrouter" -> keys["openrouter"] = <<>>
    [] provider = "custom" -> mods["custom_url"] = <<>>
    [] OTHER -> TRUE
\* the last call was one of the two handlers that call the adapter
AdapterHandlers == {"generate_more_handler", "generate_more_handler_failed", "suggest_handler"}
\* out is a configuration error raised before any request
IsConfigError(out) == ~out.ok /\ out.type = "ValueError" /\ out.requests = <<>>

\* C14: with the settings of any reachable state, generate_wildcards and
\* suggest_items fail with a configuration error and issue no HTTP request
\* when the provider lacks its configuration (gemini or openrouter without an
\* API key, custom without a base URL, an unknown provider), whatever the
\* network would answer; so does the adapter call of a handler.
C14_ConfigErrorBeforeRequest ==
  /\ \A provider \in Providers \cup {"other"}, ans \in Answers :
       Unconfigured(provider, api_keys, models) =>
         /\ IsConfigError(generate_wildcards(provider, api_keys, models, ans))
         /\ IsConfigError(suggest_items(provider, api_keys, models, ans))
  /\ (op.name \in AdapterHandlers /\ call # NoCall
        /\ Unconfigured(active_provider, api_keys, models)) =>
       IsConfigError(call) /\ answer = NoAnswer

\* the adapter was called for custom, selected without a base URL, and gave
\* the configuration error
C14_Witness ==
  /\ op.name \in AdapterHandlers
  /\ active_provider = "custom" /\ models["custom_url"] = <<>>
  /\ call.type = "ValueError" /\ call.requests = <<>>
  /\ call.text = "Custom API URL not provided in settings."

\* C15: every handler returns normally for every input, any path string and
\* any API result included: no exception propagates out of a handler call.
C15_HandlersReturn == op.name # "load_initial_data" => ~raised

\* C16: a call of generate_more_handler or suggest_handler issues at most one
\* HTTP request, and exactly one when the network answered it, whatever the
\* answer (success, a non-200 status, a network failure, an unparsable
\* body): a failed request is not sent again.
C16_AtMostOneRequest ==
  op.name \in AdapterHandlers =>
    /\ Len(call.requests) <= 1
    /\ (answer # NoAnswer => Len(call.requests) = 1)

\* a generation whose one request met a network failure
C16_Witness ==
  /\ op.name = "generate_more_handler_failed"
  /\ answer = URLError
  /\ ~call.ok /\ Len(call.requests) = 1

\* the message contents that carry the JSON text of v: bare, or inside a
\* fenced code block with or without the json tag and line breaks
ContentsOf(v) ==
  LET text == json_dumps(v)
  IN {text, Fenced(JsonTag, text), Fenced(<<>>, text), Fence \o text \o Fence,
      Fence \o JsonTag \o <<" ">> \o text \o Fence}
\* v has a list under key
HoldsList(v, key) == HasField(v, key) /\ Field(v, key).t = "jarr"
\* r is what the claim says is returned for the parsed JSON v
UnwrapsTo(v, r) ==
  CASE v.t = "jarr" -> r = v
    [] v.t = "jobj" ->
         IF HoldsList(v, KW) THEN r = Field(v, KW)
         ELSE IF HoldsList(v, KItems) THEN r = Field(v, KItems)
         ELSE IF HoldsList(v, KCategories) THEN r = Field(v, KCategories)
         ELSE IF \E i \in 1..Len(v.pairs) : v.pairs[i].v.t = "jarr"
         THEN \E i \in 1..Len(v.pairs) :
                /\ v.pairs[i].v.t = "jarr"
                /\ \A j \in 1..(i - 1) : v.pairs[j].v.t # "jarr"
                /\ r = v.pairs[i].v
         ELSE r = JArr(<<>>)
    [] OTHER -> r = JArr(<<>>)

\* C17: for an openrouter or custom response with status 200 whose message
\* content is JSON text, bare or inside a fenced code block, the call of
\* generate_wildcards returns the parsed array; of an object the list under
\* the first of 'wildcards', 'items', 'categories' that holds one, else its
\* first list-valued field, else an empty list.
C17_Unwrapping ==
  (/\ op.name \in {"generate_more_handler", "generate_more_handler_failed"}
   /\ active_provider \in {"openrouter", "custom"}
   /\ answer.k = "response" /\ answer.status = 200 /\ answer.body.b = "choices") =>
    \A v \in JsonValues :
      answer.body.text \in ContentsOf(v) => call.ok /\ UnwrapsTo(v, call.val)

\* the content was a json-tagged fenced block holding 'items' before
\* 'wildcards', and the list under 'wildcards' was returned
C17_Witness ==
  /\ op.name = "generate_more_handler"
  /\ active_provider = "openrouter"
  /\ answer.body.text = Fenced(JsonTag, json_dumps(VWrapped))
  /\ call.val = JArr(<<JStr(sy)>>)

\* C19: when writing fails in save_handler or export_handler, the failure is
\* raised or a notification of it is shown.
C19_FailureReported ==
  op.name \in {"save_handler_failed", "export_handler_failed"} =>
    raised \/ notes # <<>>

\* ------------------------------------- claims about accepting suggestions
\* the name and the instruction of a label 'name - instruction': the texts
\* before and after the first ' - ', the whole label and '' without one
NameOf(label) ==
  LET hits == {i \in 1..(Len(label) - 2) : SubSeq(label, i, i + 2) = LabelSep}
  IN IF hits = {} THEN label
     ELSE SubSeq(label, 1, (CHOOSE i \in hits : \A j \in hits : i <= j) - 1)
InstrOf(label) ==
  LET hits == {i \in 1..(Len(label) - 2) : SubSeq(label, i, i + 2) = LabelSep}
  IN IF hits = {} THEN <<>>
     ELSE SubSeq(label, (CHOOSE i \in hits : \A j \in hits : i <= j) + 3, Len(label))
Underscored(s) == [i \in 1..Len(s) |-> IF s[i] = " " THEN "_" ELSE s[i]]
\* the key of a label: its name with spaces replaced, as it stands or trimmed
LiteralKey(label) == Underscored(NameOf(label))
TrimmedKey(label) == Underscored(Strip(NameOf(label)))

\* The last call accepted suggestions at a path whose parent is a category
\* of the tree, and it left under that parent the children it had, unchanged,
\* and for every other key of a selected label an empty leaf with the
\* instruction of the first label of that key, the rest of the tree unchanged.
Accepts(Key(_)) ==
  LET parts == IF op.path = <<>> THEN <<>> ELSE Split(op.path, "/")
      loc == IF parts = <<>> THEN <<>> ELSE Front(parts)
      selected == op.arg
      before == NodeAt(prev, loc)
      after == NodeAt(wildcards, loc)
      first(k) == CHOOSE i \in 1..Len(selected) :
                    /\ Key(selected[i]) = k
                    /\ \A j \in 1..(i - 1) : Key(selected[j]) # k
  IN (op.name = "accept_suggestions_handler" /\ loc \in Locs(prev)) =>
       /\ loc \in Locs(wildcards)
       /\ Keys(after) = Keys(before) \cup {Key(selected[i]) : i \in 1..Len(selected)}
       /\ \A k \in Keys(before) : after.d[k] = before.d[k]
       /\ \A k \in Keys(after) \ Keys(before) :
            after.d[k] = Leaf(InstrOf(selected[first(k)]), <<>>)
       /\ wildcards = SetAt(prev, loc, after)

\* C20 as stated: accept_suggestions_handler inserts each selected
\* suggestion under the parent of the current path (the root for an empty or
\* single-segment path) as an empty leaf with its instruction, keyed by its
\* name with spaces replaced by underscores; an existing name is skipped and
\* the existing category left unchanged.
C20_AcceptInserts == Accepts(LiteralKey)

\* C20, amended: the key is the name without the blanks around it, its
\* inner spaces replaced by underscores.
C20_AcceptInsertsTrimmed == Accepts(TrimmedKey)

\* 'c d -  i ' was accepted at a/b, and a, which held b, has the new leaf
\* c_d with the instruction ' i ' beside it
C20_Witness ==
  /\ op.name = "accept_suggestions_handler"
  /\ op.path = pAB /\ op.arg = <<<<"c", " ", "d", " ", "-", " ", " ", "i", " ">>>>
  /\ sa \in Keys(prev) /\ Keys(prev.d[sa]) = {KI, sb}
  /\ Keys(wildcards.d[sa]) = {KI, sb, <<"c", "_", "d">>}
  /\ wildcards.d[sa].d[<<"c", "_", "d">>] = Leaf(<<" ", "i", " ">>, <<>>)

\* C18: load_initial_data never raises; for a missing, empty or malformed
\* data file it returns an empty tree, otherwise the decoding of the file.
C18_LoadInitialData ==
  op.name = "load_initial_data" =>
    /\ ~raised
    /\ IF op.file \in {NoFile, Malformed, YNone} THEN wildcards = EmptyDict
       ELSE DecodesTop(op.file, wildcards)

\* ------------------------------------------ claims about transport errors
\* C21: when the request of a handler's adapter call is answered with an
\* HTTP error status, the error that generate_wildcards or suggest_items
\* raises carries the status code and the response body.
C21_HttpErrorCarried ==
  (op.name \in AdapterHandlers /\ answer.k = "httperror") =>
    /\ ~call.ok
    /\ call.code = answer.status
    /\ call.body = answer.raw

\* ------------------------------------------------ claims about suggestions
\* a pair with a 'name' and an 'instruction'
IsPair(v) == v.t = "jobj" /\ HasField(v, KName) /\ HasField(v, KI)

\* C22: whenever the suggest_items call of suggest_handler returns, it
\* returns a sequence whose every element is a pair with a 'name' and an
\* 'instruction'; for openrouter and custom the value is the one the
\* unwrapping of generation gives for the same response.
C22_SuggestionsArePairs ==
  (op.name = "suggest_handler" /\ call # NoCall /\ call.ok) =>
    /\ call.val.t = "jarr"
    /\ \A i \in 1..Len(call.val.items) : IsPair(call.val.items[i])
    /\ active_provider \in {"openrouter", "custom"} =>
         call.val = generate_wildcards(active_provider, api_keys, models, answer).val

\* ------------------------------------------ claims about creating categories
\* the node keeps the wildcards and the instruction it had
KeepsFields(before, after) ==
  \A k \in {KI, KW} :
    /\ k \in Keys(before) <=> k \in Keys(after)
    /\ k \in Keys(before) => after.d[k] = before.d[k]

\* C23: after create_category_confirm(name) with a non-blank name, every
\* '/'-separated segment of the trimmed name is a child category of the
\* node of the segment before it, the last node is a leaf, the nodes that
\* were on the path before keep their wildcards and instruction, and the
\* same call on the resulting tree changes nothing.
C23_CreateCategory ==
  (op.name = "create_category_confirm" /\ Strip(op.path) # <<>>) =>
    LET parts == Split(Strip(op.path), "/")
    IN /\ \A i \in 1..Len(parts) : SubSeq(parts, 1, i) \in Locs(wildcards)
       /\ IsLeafValue(NodeAt(wildcards, parts))
       /\ \A i \in 1..Len(parts) :
            SubSeq(parts, 1, i) \in Locs(prev) =>
              KeepsFields(NodeAt(prev, SubSeq(parts, 1, i)),
                          NodeAt(wildcards, SubSeq(parts, 1, i)))
       /\ create_category_confirm(op.path, wildcards).tree = wildcards

\* -------------------------------------- claims about the wildcards of a leaf
\* a list of strings
IsStringList(val) ==
  val.t = "jarr" /\ \A i \in 1..Len(val.items) : val.items[i].t = "jstr"
\* the last call addressed, by its path, a leaf of the tree it was given
OnLeaf == op.path # <<>> /\ Split(op.path, "/") \in LeafLocs(prev)
\* the leaves other than the one at loc have the wildcards they had
OtherLeavesKept(loc) ==
  \A l \in LeafLocs(prev) \ {loc} :
    /\ l \in LeafLocs(wildcards)
    /\ NodeWildcards(NodeAt(wildcards, l)) = NodeWildcards(NodeAt(prev, l))

Remaining(before, gone, after) ==
  LET kept == {i \in 1..Len(before) : before[i] \notin gone}
      nth(j) == CHOOSE i \in kept : Cardinality({k \in kept : k <= i}) = j
  IN /\ Len(after) = Cardinality(kept)
     /\ \A j \in 1..Len(after) : after[j] = before[nth(j)]

\* C25: delete_selected_handler(path, selected) on a leaf leaves in its
\* list no selected wildcard and every unselected one, in the order they
\* had; the wildcards of every other leaf are unchanged.
C25_DeleteSelected ==
  (op.name = "delete_selected_handler" /\ OnLeaf) =>
    LET loc == Split(op.path, "/")
        before == NodeWildcards(NodeAt(prev, loc))
        after == NodeWildcards(NodeAt(wildcards, loc))
    IN /\ ~raised
       /\ loc \in LeafLocs(wildcards)
       /\ Elems(after) \cap Elems(op.arg) = {}
       /\ Remaining(before, Elems(op.arg), after)
       /\ OtherLeavesKept(loc)

\* ['y', 'x'] was selected on the leaf a that held ['1', 'y'], and a holds
\* ['1']
C25_Witness ==
  /\ op.name = "delete_selected_handler" /\ OnLeaf
  /\ op.path = sa /\ op.arg = <<sy, sx>>
  /\ NodeWildcards(prev.d[sa]) = <<<<"1">>, sy>>
  /\ NodeWildcards(wildcards.d[sa]) = <<<<"1">>>>

\* C26: after create_category_confirm(name) with a non-blank name, the
\* trimmed name, which the handler selects in the category dropdown, is one
\* of the paths get_all_paths returns for the tree.
C26_CreatedPathListed ==
  (op.name = "create_category_confirm" /\ Strip(op.path) # <<>>) =>
    /\ ~raised
    /\ Strip(op.path) \in Elems(get_all_paths(wildcards))

\* ------------------------------------------------- claims about failed calls
\* C27: if the adapter call that generate_more_handler made failed, or
\* returned something other than a list of strings, the tree after the
\* handler is the tree before it; suggest_handler never changes the tree.
C27_FailureKeepsTree ==
  /\ (/\ op.name \in {"generate_more_handler", "generate_more_handler_failed"}
      /\ call # NoCall
      /\ ~(call.ok /\ IsStringList(call.val))) => wildcards = prev
  /\ op.name = "suggest_handler" => wildcards = prev

\* C28: add_wildcard_handler, delete_selected_handler, delete_category_handler
\* and generate_more_handler called with a path that addresses no category
\* of the tree, and import_handler called with a file that fails to parse,
\* leave the whole tree unchanged.
C28_NoNodeNoChange ==
  /\ (/\ op.name \in {"add_wildcard_handler", "delete_selected_handler",
                      "delete_category_handler", "generate_more_handler",
                      "generate_more_handler_failed"}
      /\ (op.path = <<>> \/ Split(op.path, "/") \notin CategoryLocs(prev)))
       => wildcards = prev
  /\ (op.name = "import_handler" /\ op.file = Malformed) => wildcards = prev

\* ---------------------------------- claims about the labels of suggestions
\* suggestions a model can answer with: the two of the answers, a name that
\* ends with a blank, a name that contains ' - ', an empty name
SuggestionInputs ==
  {Suggestion(<<"n">>, si),
   Suggestion(<<"c", " ", "d">>, <<" ", "i", " ">>),
   Suggestion(<<"b", " ">>, si),
   Suggestion(<<"a", " ", "-", " ", "b">>, si),
   Suggestion(<<>>, si)}

\* C29: for every suggestion {name, instruction}, accepting the label that
\* suggest_handler renders for it, 'name - instruction', at the top level of
\* a tree that has no category of that key creates a category whose key is
\* the name with spaces replaced by underscores and whose instruction is the
\* suggestion's instruction.
C29_LabelRoundTrip ==
  \A sug \in SuggestionInputs :
    LET key == Underscored(Field(sug, KName).s)
        r == accept_suggestions_handler(<<Label(sug)>>, <<>>, wildcards)
    IN (key \notin Keys(wildcards) /\ ~get_all_paths_raises(wildcards)) =>
         /\ ~r.raised
         /\ Keys(r.tree) = Keys(wildcards) \cup {key}
         /\ r.tree.d[key] = Leaf(Field(sug, KI).s, <<>>)

\* ------------------------------------------------ claims about the settings
\* the settings event of the step, for provider, made it the active
\* provider and left alone the key and the model of every other provider,
\* the custom URL unless it is for 'custom', and the tree
SettingsEventKeeps(provider) ==
  /\ active_provider' = provider
  /\ \A p \in Providers \ {provider} :
       api_keys'[p] = api_keys[p] /\ models'[p] = models[p]
  /\ provider # "custom" => models'["custom_url"] = models["custom_url"]
  /\ wildcards' = wildcards
\* the request carries the key and the model stored for the active provider:
\* gemini has both in its URL, the others send the model in the payload and
\* the key, when there is one, as the bearer token
RequestUsesStored(request) ==
  IF active_provider' = "gemini"
  THEN /\ FindFrom(request.url, models'["gemini"], 1) # 0
       /\ FindFrom(request.url, api_keys'["gemini"], 1) # 0
  ELSE /\ request.model = models'[active_provider']
       /\ request.authorization =
            IF api_keys'[active_provider'] = <<>> THEN <<>>
            ELSE <<"Bearer ">> \o api_keys'[active_provider']

\* C30: a settings event makes its provider the active one and changes
\* neither another provider's key or model, nor the custom URL unless it is
\* for 'custom', nor the tree; no other handler changes the settings, so the
\* active provider is that of the most recent settings event; and a request
\* of a later generation or suggestion carries the key and the model stored
\* for the active provider.
C30_Settings ==
  [][/\ op'.name = "update_settings" => SettingsEventKeeps(op'.arg[1][1])
     /\ op'.name # "update_settings" => UNCHANGED settings
     /\ (op'.name \in AdapterHandlers /\ call' # NoCall /\ call'.requests # <<>>)
          => RequestUsesStored(call'.requests[1])]_vars

\* after a settings event for custom stored the key 'k' and the model 'm',
\* suggest_handler sent one request with that model and that bearer token
C30_Witness ==
  /\ op.name = "suggest_handler"
  /\ active_provider = "custom" /\ api_keys["custom"] = <<"k">> /\ models["custom"] = <<"m">>
  /\ call # NoCall /\ Len(call.requests) = 1
  /\ call.requests[1].model = <<"m">>
  /\ call.requests[1].authorization = <<"Bearer ", "k">>
====
